---------------------------- MODULE Spec2Model ----------------------------
(***************************************************************************)
(* SafeCity dashboard (src/app.py): start-up loading of the crime table    *)
(* and the borough boundaries, the wide-to-long reshaping, and the two     *)
(* Dash callbacks that drive the heatmap and the borough detail section.   *)
(*                                                                         *)
(* Python values are modelled as follows.  A DataFrame, a figure, a style  *)
(* and the GeoJSON document are records with a "tag" field; Python's None  *)
(* for such values is the record None.  Strings stay strings, and a None   *)
(* held where a string is expected (a dropdown value) is the string        *)
(* NoneStr, which is no borough and no crime category.  A group-by result  *)
(* is a function from the group keys to the sums (pandas' ordering of the  *)
(* groups is not modelled); a title built by an f-string is the tuple of   *)
(* its parts.                                                              *)
(***************************************************************************)
EXTENDS Naturals, Sequences, FiniteSets, TLC

VARIABLES
    pc,              \* position of the module-level code / "serving" / "crashed"
    crimeFile,       \* what is on disk at data/crime_cleaned.csv
    geoFile,         \* what is on disk at Data/london-boroughs_1179.geojson
    wide,            \* the frame pd.read_csv returned (kept to compare with the melt)
    crime_df,        \* module global crime_df
    geojson_data,    \* module global geojson_data
    borough_options, \* module global borough_options
    ui,              \* the properties of the layout's components in the browser
    last_call        \* the arguments of the last call of update_graphs_and_dropdown

vars == <<pc, crimeFile, geoFile, wide, crime_df, geojson_data, borough_options, ui, last_call>>

-----------------------------------------------------------------------------
(* Bounds of the model *)

\* most rows of a wide table read at start-up
MaxRows == 2
\* largest count held in a month cell of a table read at start-up
MaxCount == 1
\* the navigate button's click counter is capped here
MaxClicks == 2

\* the month columns a wide table may have (a table has a prefix of these)
MonthLabels == <<"2023-01", "2023-02">>

\* the identity columns of the rows a table may hold
IdentityRows ==
    << [BoroughName |-> "Camden", MajorText |-> "Burglary", MinorText |-> "Residential"],
       [BoroughName |-> "Camden", MajorText |-> "Burglary", MinorText |-> "Business"],
       [BoroughName |-> "Camden", MajorText |-> "Theft",    MinorText |-> "Shoplifting"],
       [BoroughName |-> "Barnet", MajorText |-> "Burglary", MinorText |-> "Residential"] >>

-----------------------------------------------------------------------------
(* Python values *)

None == [tag |-> "None"]
NoneStr == "<None>"
no_update == [tag |-> "no_update"]
Raised == [tag |-> "raised"]

DisplayNone == [display |-> "none"]
DisplayBlock == [display |-> "block"]

\* a parsed GeoJSON document
GeoDocument == [tag |-> "FeatureCollection"]

\* the wide frame with the given month columns and rows
WideFrame(months, rows) == [tag |-> "DataFrame", months |-> months, rows |-> rows]

\* a long frame
LongFrame(rows) == [tag |-> "DataFrame", rows |-> rows]

WideRow(id, cells) ==
    [BoroughName |-> id.BoroughName, MajorText |-> id.MajorText,
     MinorText |-> id.MinorText, cells |-> cells]

Prefix(s, n) == SubSeq(s, 1, n)

\* the identities of the rows of the tables read at start-up
StartupIdentities == {IdentityRows[1], IdentityRows[Len(IdentityRows)]}

\* the wide tables with m month columns: up to MaxRows rows, any cells
WideTablesOf(m) ==
    LET Rows == {WideRow(id, c) : id \in StartupIdentities, c \in [1..m -> 0..MaxCount]}
    IN  {WideFrame(Prefix(MonthLabels, m), rs) :
            rs \in UNION {[1..k -> Rows] : k \in 0..MaxRows}}

WideTables == UNION {WideTablesOf(m) : m \in 0..Len(MonthLabels)}

FileStates == {"ok", "missing", "empty", "unparsable"}

-----------------------------------------------------------------------------
(* Loading *)

\* load_crime_data with `status` on disk and `content` the table a parsable file holds:
\* the returned frame, None, or Raised when an exception leaves the function
load_crime_data(status, content) ==
    CASE status = "ok"         -> content
      [] status = "missing"    -> None      \* FileNotFoundError, caught
      [] status = "empty"      -> None      \* pd.errors.EmptyDataError, caught
      [] status = "unparsable" -> Raised    \* pd.errors.ParserError, no handler

\* load_geojson with `status` on disk
load_geojson(status) ==
    CASE status = "ok"         -> GeoDocument
      [] status = "missing"    -> None      \* FileNotFoundError, caught
      [] status = "empty"      -> Raised    \* json.JSONDecodeError, no handler
      [] status = "unparsable" -> Raised    \* json.JSONDecodeError, no handler

\* record n (1-based) of df.melt(id_vars=[BoroughName, MajorText, MinorText]):
\* pandas stacks the value columns one after the other, each over all rows
MeltedRecord(df, n) ==
    LET k == Len(df.rows)
        j == ((n - 1) \div k) + 1
        i == ((n - 1) % k) + 1
    IN  [BoroughName |-> df.rows[i].BoroughName,
         MajorText   |-> df.rows[i].MajorText,
         MinorText   |-> df.rows[i].MinorText,
         Month       |-> df.months[j],
         CrimeCount  |-> df.rows[i].cells[j]]

\* the melt with the rows and the columns taken the other way round
melt_row_major(df) ==
    IF df # None
    THEN LongFrame([n \in 1..(Len(df.rows) * Len(df.months)) |->
            LET m == Len(df.months)
                i == ((n - 1) \div m) + 1
                j == ((n - 1) % m) + 1
            IN  [BoroughName |-> df.rows[i].BoroughName,
                 MajorText   |-> df.rows[i].MajorText,
                 MinorText   |-> df.rows[i].MinorText,
                 Month       |-> df.months[j],
                 CrimeCount  |-> df.rows[i].cells[1]]])
    ELSE df

melt_crime_data(df) ==
    IF df # None
    THEN LongFrame([n \in 1..(Len(df.rows) * Len(df.months)) |-> MeltedRecord(df, n)])
    ELSE df

\* pandas' Series.unique(): the values in order of first appearance
RECURSIVE Unique(_)
Unique(s) ==
    IF s = <<>> THEN <<>>
    ELSE LET front == Unique(Prefix(s, Len(s) - 1))
             x == s[Len(s)]
         IN  IF \E i \in 1..Len(front) : front[i] = x THEN front ELSE Append(front, x)

Column(rows, col) == [i \in 1..Len(rows) |-> rows[i][col]]

Option(v) == [label |-> v, value |-> v]

\* line 73
BoroughOptions(df) ==
    IF df # None
    THEN LET bs == Unique(Column(df.rows, "BoroughName"))
         IN  [i \in 1..Len(bs) |-> Option(bs[i])]
    ELSE << [label |-> "No data available", value |-> ""] >>

\* the component properties app.layout sets
Layout ==
    [borough_value      |-> NoneStr,
     n_clicks           |-> 0,
     heatmap_figure     |-> None,
     container_style    |-> DisplayNone,
     trend_figure       |-> None,
     pie_figure         |-> None,
     pie_style          |-> DisplayNone,
     breakdown_figure   |-> None,
     major_options      |-> <<>>,
     major_style        |-> DisplayNone,
     major_value        |-> NoneStr,
     loaded             |-> FALSE]

NoCall == [ran |-> FALSE]

-----------------------------------------------------------------------------
(* Start-up: the module-level statements of app.py, in order *)

InitStartup ==
    /\ pc = "load_crime_data"
    /\ crimeFile = "unread"
    /\ geoFile = "unread"
    /\ wide = None
    /\ crime_df = None
    /\ geojson_data = None
    /\ borough_options = <<>>
    /\ ui = None
    /\ last_call = NoCall

\* line 40: crime_df = load_crime_data()
LoadCrimeData ==
    /\ pc = "load_crime_data"
    /\ \E status \in FileStates :
       \E content \in (IF status = "ok" THEN WideTables ELSE {None}) :
          LET r == load_crime_data(status, content)
          IN  /\ crimeFile' = status
              /\ IF r = Raised
                 THEN pc' = "crashed" /\ UNCHANGED <<wide, crime_df>>
                 ELSE pc' = "load_geojson" /\ wide' = r /\ crime_df' = r
    /\ UNCHANGED <<geoFile, geojson_data, borough_options, ui, last_call>>

\* line 41: geojson_data = load_geojson()
LoadGeojson ==
    /\ pc = "load_geojson"
    /\ \E status \in FileStates :
          LET r == load_geojson(status)
          IN  /\ geoFile' = status
              /\ IF r = Raised
                 THEN pc' = "crashed" /\ UNCHANGED geojson_data
                 ELSE pc' = "melt" /\ geojson_data' = r
    /\ UNCHANGED <<crimeFile, wide, crime_df, borough_options, ui, last_call>>

\* line 70: crime_df = melt_crime_data(crime_df)
MeltCrimeData ==
    /\ pc = "melt"
    /\ crime_df' = melt_crime_data(crime_df)
    /\ pc' = "layout"
    /\ UNCHANGED <<crimeFile, geoFile, wide, geojson_data, borough_options, ui, last_call>>

\* lines 73-125: borough_options and app.layout
BuildLayout ==
    /\ pc = "layout"
    /\ borough_options' = BoroughOptions(crime_df)
    /\ ui' = Layout
    /\ pc' = "serving"
    /\ UNCHANGED <<crimeFile, geoFile, wide, crime_df, geojson_data, last_call>>

NextStartup == LoadCrimeData \/ LoadGeojson \/ MeltCrimeData \/ BuildLayout

SpecStartup == InitStartup /\ [][NextStartup]_vars

-----------------------------------------------------------------------------
(* Figures *)

\* empty_figure(message), lines 52-68
empty_figure(message) ==
    [tag           |-> "Figure",
     title         |-> message,
     xaxis_visible |-> FALSE,
     yaxis_visible |-> FALSE,
     annotations   |-> << [text |-> message, xref |-> "paper", yref |-> "paper",
                           showarrow |-> FALSE, font_size |-> 20] >>]

RECURSIVE SumCrimeCount(_)
\* the sum of the CrimeCount column, added up row after row
SumCrimeCount(rows) ==
    IF rows = <<>> THEN 0
    ELSE SumCrimeCount(Prefix(rows, Len(rows) - 1)) + rows[Len(rows)].CrimeCount

\* df[df[col] == v]
WhereEq(rows, col, v) == SelectSeq(rows, LAMBDA r : r[col] = v)

\* df.groupby(col)['CrimeCount'].sum(): one group per value of the column
GroupBySum(rows, col) ==
    [k \in {rows[i][col] : i \in 1..Len(rows)} |-> SumCrimeCount(WhereEq(rows, col, k))]

\* px.line(df, x='Month', y='CrimeCount', color='MinorText'): one trace per MinorText,
\* its points in row order
TracesByMinorText(rows) ==
    [k \in {rows[i].MinorText : i \in 1..Len(rows)} |->
        LET rs == WhereEq(rows, "MinorText", k)
        IN  [i \in 1..Len(rs) |-> [x |-> rs[i].Month, y |-> rs[i].CrimeCount]]]

\* px.line() with no arguments
EmptyLine == [tag |-> "line", title |-> <<>>, traces |-> <<>>]

\* update_heatmap testing the dataset only
heatmap_ignoring_geojson(n_clicks, df, geo) ==
    IF df = None
    THEN empty_figure("Error: No data available")
    ELSE [tag |-> "choropleth_map", title |-> "Crime Heatmap of London",
          geojson |-> geo, values |-> GroupBySum(df.rows, "BoroughName")]

\* update_heatmap(n_clicks), reading the globals crime_df and geojson_data
update_heatmap(n_clicks, df, geo) ==
    IF df = None \/ geo = None
    THEN empty_figure("Error: No data available")
    ELSE [tag |-> "choropleth_map", title |-> "Crime Heatmap of London",
          geojson |-> geo, values |-> GroupBySum(df.rows, "BoroughName")]

\* Python truth of a string-or-None value
Truthy(v) == v # NoneStr /\ v # ""

\* a value returned for an output (dash.no_update is returned in its place)
Out(v) == [value |-> v]

\* the tuple update_graphs_and_dropdown returns, by output
Outputs(container, trend, pie, pieStyle, breakdown, options, majorStyle, value) ==
    [container_style  |-> container,
     trend_figure     |-> trend,
     pie_figure       |-> pie,
     pie_style        |-> pieStyle,
     breakdown_figure |-> breakdown,
     major_options    |-> options,
     major_style      |-> majorStyle,
     major_value      |-> value]

\* line 172 with the charts reset to empty ones
HiddenOutputsResettingCharts ==
    Outputs(Out(DisplayNone), Out(EmptyLine), Out(EmptyLine), Out(DisplayNone),
            Out(EmptyLine), Out(<<>>), Out(DisplayNone), no_update)

\* line 172 with the pie chart's style left as it is
HiddenOutputsKeepingPieStyle ==
    Outputs(Out(DisplayNone), no_update, no_update, no_update, no_update,
            Out(<<>>), Out(DisplayNone), no_update)

\* line 172
HiddenOutputs ==
    Outputs(Out(DisplayNone), no_update, no_update, Out(DisplayNone), no_update,
            Out(<<>>), Out(DisplayNone), no_update)

\* the trend chart computed over the whole table
trend_fig_unfiltered(df, selected_borough) ==
    [tag |-> "line",
     title |-> <<"Overall Crime Trend in", selected_borough, "Over Time">>,
     values |-> GroupBySum(df.rows, "Month")]

\* lines 175-190
trend_fig(df, selected_borough) ==
    LET filtered_df == WhereEq(df.rows, "BoroughName", selected_borough)
    IN  [tag |-> "line",
         title |-> <<"Overall Crime Trend in", selected_borough, "Over Time">>,
         values |-> GroupBySum(filtered_df, "Month")]

\* lines 193-203
pie_chart_fig(df, selected_borough) ==
    LET filtered_df == WhereEq(df.rows, "BoroughName", selected_borough)
    IN  [tag |-> "pie",
         title |-> <<"Count of Each Major Crime Type in", selected_borough>>,
         values |-> GroupBySum(filtered_df, "MajorText")]

\* the breakdown chart filtered on the category alone
breakdown_fig_any_borough(df, selected_major_crime, selected_borough) ==
    IF Truthy(selected_major_crime)
    THEN [tag |-> "line",
          title |-> <<"Crime Trend Over Time for", selected_major_crime, "in",
                      selected_borough>>,
          traces |-> TracesByMinorText(WhereEq(df.rows, "MajorText", selected_major_crime))]
    ELSE EmptyLine

\* lines 206-222
breakdown_fig(df, selected_major_crime, selected_borough) ==
    LET filtered_df == WhereEq(df.rows, "BoroughName", selected_borough)
    IN  IF Truthy(selected_major_crime)
        THEN [tag |-> "line",
              title |-> <<"Crime Trend Over Time for", selected_major_crime, "in",
                          selected_borough>>,
              traces |-> TracesByMinorText(
                            WhereEq(filtered_df, "MajorText", selected_major_crime))]
        ELSE EmptyLine

\* line 225
major_crime_options(df, selected_borough) ==
    LET filtered_df == WhereEq(df.rows, "BoroughName", selected_borough)
        ms == Unique(Column(filtered_df, "MajorText"))
    IN  [i \in 1..Len(ms) |-> Option(ms[i])]

\* the callback without the test of the borough
update_graphs_without_borough_test(n_clicks, selected_major_crime, selected_borough, df) ==
    IF n_clicks = 0 \/ df = None
    THEN HiddenOutputs
    ELSE Outputs(Out(DisplayBlock),
                 Out(trend_fig(df, selected_borough)),
                 Out(pie_chart_fig(df, selected_borough)),
                 Out(DisplayBlock),
                 Out(breakdown_fig(df, selected_major_crime, selected_borough)),
                 Out(major_crime_options(df, selected_borough)),
                 Out(DisplayBlock),
                 Out(NoneStr))

\* the callback with the category's filter applied before the trend and pie charts
update_graphs_filtering_category_first(n_clicks, selected_major_crime, selected_borough, df) ==
    LET narrowed == IF Truthy(selected_major_crime)
                    THEN LongFrame(WhereEq(df.rows, "MajorText", selected_major_crime))
                    ELSE df
    IN  IF n_clicks = 0 \/ df = None \/ ~Truthy(selected_borough)
        THEN HiddenOutputs
        ELSE Outputs(Out(DisplayBlock),
                     Out(trend_fig(narrowed, selected_borough)),
                     Out(pie_chart_fig(narrowed, selected_borough)),
                     Out(DisplayBlock),
                     Out(breakdown_fig(df, selected_major_crime, selected_borough)),
                     Out(major_crime_options(df, selected_borough)),
                     Out(DisplayBlock),
                     Out(NoneStr))

\* update_graphs_and_dropdown(n_clicks, selected_major_crime, selected_borough),
\* reading the global crime_df
update_graphs_and_dropdown(n_clicks, selected_major_crime, selected_borough, df) ==
    IF n_clicks = 0 \/ df = None \/ ~Truthy(selected_borough)
    THEN HiddenOutputs
    ELSE Outputs(Out(DisplayBlock),
                 Out(trend_fig(df, selected_borough)),
                 Out(pie_chart_fig(df, selected_borough)),
                 Out(DisplayBlock),
                 Out(breakdown_fig(df, selected_major_crime, selected_borough)),
                 Out(major_crime_options(df, selected_borough)),
                 Out(DisplayBlock),
                 Out(NoneStr))

-----------------------------------------------------------------------------
(* The browser: events and the callbacks they trigger.  One event is handled *)
(* whole, its callbacks included, before the next.                           *)

OutputNames ==
    {"container_style", "trend_figure", "pie_figure", "pie_style", "breakdown_figure",
     "major_options", "major_style", "major_value"}

\* Dash writes every output a callback returned except dash.no_update.  The value
\* of major-crime-selection is both an Input and an Output of the same callback:
\* Dash does not run a callback again for an output it wrote itself.
ApplyOutputs(props, ret) ==
    [f \in DOMAIN props |->
        IF f \in OutputNames /\ ret[f] # no_update THEN ret[f].value ELSE props[f]]

\* the arguments of a call of update_graphs_and_dropdown
Call(n, major, borough) ==
    [ran |-> TRUE, n_clicks |-> n, selected_major_crime |-> major,
     selected_borough |-> borough]

\* the callbacks run on the properties `props`, as Dash runs them after a change
\* of one of their inputs; update_heatmap only when n_clicks is the input
RunCallbacks(props, heatmapToo) ==
    LET ret == update_graphs_and_dropdown(props.n_clicks, props.major_value,
                                          props.borough_value, crime_df)
        withHeatmap ==
            IF heatmapToo
            THEN [props EXCEPT !.heatmap_figure =
                     update_heatmap(props.n_clicks, crime_df, geojson_data)]
            ELSE props
    IN  /\ ui' = ApplyOutputs(withHeatmap, ret)
        /\ last_call' = Call(props.n_clicks, props.major_value, props.borough_value)

Data == <<pc, crimeFile, geoFile, wide, crime_df, geojson_data, borough_options>>

OptionValues(options) == {options[i].value : i \in 1..Len(options)}

\* the page is opened or reloaded: the layout's properties, the borough kept
\* (persistence=True), and Dash's initial call of every callback
PageLoad ==
    /\ pc = "serving"
    /\ RunCallbacks([Layout EXCEPT !.borough_value = ui.borough_value, !.loaded = TRUE],
                    TRUE)
    /\ UNCHANGED Data

\* the borough dropdown wired as an Input: its change runs the callback
SelectBoroughAsInput ==
    /\ pc = "serving" /\ ui.loaded
    /\ \E v \in OptionValues(borough_options) \cup {NoneStr} :
          /\ v # ui.borough_value
          /\ RunCallbacks([ui EXCEPT !.borough_value = v], FALSE)
    /\ UNCHANGED Data

\* the user picks or clears the borough: borough-selection is a State of the
\* callback, not an Input, so no callback runs
SelectBorough ==
    /\ pc = "serving" /\ ui.loaded
    /\ \E v \in OptionValues(borough_options) \cup {NoneStr} :
          /\ v # ui.borough_value
          /\ ui' = [ui EXCEPT !.borough_value = v]
          /\ UNCHANGED last_call
    /\ UNCHANGED Data

\* the user clicks "Go to Dashboard": n_clicks is an Input of both callbacks
ClickNavigate ==
    /\ pc = "serving" /\ ui.loaded
    /\ ui.n_clicks < MaxClicks
    /\ RunCallbacks([ui EXCEPT !.n_clicks = ui.n_clicks + 1], TRUE)
    /\ UNCHANGED Data

\* the user picks a major crime type in the visible dropdown: its value is an
\* Input of update_graphs_and_dropdown
PickCategory ==
    /\ pc = "serving" /\ ui.loaded
    /\ ui.container_style = DisplayBlock /\ ui.major_style = DisplayBlock
    /\ \E c \in OptionValues(ui.major_options) :
          /\ c # ui.major_value
          /\ RunCallbacks([ui EXCEPT !.major_value = c], FALSE)
    /\ UNCHANGED Data

\* the month cells of a row of a table the dashboard is explored on
DashboardCells == {<<1, 0>>, <<1, 2>>, <<0, 3>>}

\* the wide tables the dashboard is explored on: any selection of the rows of
\* IdentityRows, in their order, with every month column
RECURSIVE DashboardRows(_)
DashboardRows(n) ==
    IF n = 0 THEN {<<>>}
    ELSE LET shorter == DashboardRows(n - 1)
         IN  shorter \cup
             {Append(rs, WideRow(IdentityRows[n], c)) : rs \in shorter, c \in DashboardCells}

DashboardTables == {WideFrame(MonthLabels, rs) : rs \in DashboardRows(Len(IdentityRows))}

\* the server is up: the module-level code ran through without raising
Init ==
    /\ pc = "serving"
    /\ \E status \in {s \in FileStates : load_crime_data(s, None) # Raised} :
       \E content \in (IF status = "ok" THEN DashboardTables ELSE {None}) :
          /\ crimeFile = status
          /\ wide = load_crime_data(status, content)
          /\ crime_df = melt_crime_data(wide)
    /\ \E status \in {s \in FileStates : load_geojson(s) # Raised} :
          /\ geoFile = status
          /\ geojson_data = load_geojson(status)
    /\ borough_options = BoroughOptions(crime_df)
    /\ ui = Layout
    /\ last_call = NoCall

Next == PageLoad \/ SelectBorough \/ ClickNavigate \/ PickCategory

Spec == Init /\ [][Next]_vars

-----------------------------------------------------------------------------
(* Vocabulary of the properties.  Sums here are taken over sets of row       *)
(* indices, not by the row-after-row addition the callbacks are modelled by. *)

RECURSIVE SetSum(_, _)
\* the sum of f[x] over the x in S
SetSum(f, S) ==
    IF S = {} THEN 0
    ELSE LET x == CHOOSE y \in S : TRUE
         IN  f[x] + SetSum(f, S \ {x})

\* what the last call of update_graphs_and_dropdown returned
LastReturn ==
    update_graphs_and_dropdown(last_call.n_clicks, last_call.selected_major_crime,
                               last_call.selected_borough, crime_df)

\* the indices of the records of crime_df that satisfy P
Records(P(_)) == {i \in 1..Len(crime_df.rows) : P(crime_df.rows[i])}

CountAt == [i \in 1..Len(crime_df.rows) |-> crime_df.rows[i].CrimeCount]

OfBorough(b) == Records(LAMBDA r : r.BoroughName = b)

\* the detail section shows the charts of a borough
Displayed == ui # None /\ ui.container_style = DisplayBlock

\* a step in which the navigate button was clicked
NavigateStep == ui'.n_clicks = ui.n_clicks + 1

\* a step in which the borough dropdown was changed
BoroughStep == ui.loaded /\ ui'.borough_value # ui.borough_value

\* a step in which a major crime type was picked in the dropdown
PickStep ==
    /\ ui.loaded /\ ui.major_style = DisplayBlock
    /\ ui'.n_clicks = ui.n_clicks
    /\ ui'.borough_value = ui.borough_value
    /\ last_call' # last_call
    /\ Truthy(last_call'.selected_major_crime)

\* the breakdown chart shows the series of a category
HasBreakdown == ui.breakdown_figure # None /\ ui.breakdown_figure.title # <<>>

-----------------------------------------------------------------------------
(* C1 *)

\* C1: whenever update_graphs_and_dropdown has run with no borough selected
\* (None or the empty string), it returned {'display': 'none'} for the graph
\* container and the detail section is hidden: a navigate click without a
\* borough never shows the detail section.
C1_HiddenWithoutBorough ==
    (last_call.ran /\ ~Truthy(last_call.selected_borough))
        => /\ LastReturn.container_style = Out(DisplayNone)
           /\ ui.container_style = DisplayNone

\* navigate was clicked with the data present and the borough cleared, after the
\* charts of a borough had been shown
C1_Witness ==
    /\ last_call.ran /\ last_call.n_clicks > 0 /\ crime_df # None
    /\ last_call.selected_borough = NoneStr
    /\ ui.trend_figure # None
    /\ ui.container_style = DisplayNone

-----------------------------------------------------------------------------
(* C2 *)

\* C2: once update_heatmap has run, for whatever n_clicks, the heatmap is the
\* empty figure whose single annotation reads "Error: No data available"
\* whenever the crime dataset is absent or the boundaries are absent.
C2_HeatmapNoData ==
    (ui # None /\ ui.loaded /\ (crime_df = None \/ geojson_data = None))
        => /\ ui.heatmap_figure = empty_figure("Error: No data available")
           /\ Len(ui.heatmap_figure.annotations) = 1
           /\ ui.heatmap_figure.annotations[1].text = "Error: No data available"
           /\ ui.heatmap_figure.title = "Error: No data available"

\* update_heatmap ran on a navigate click with the dataset present and only the
\* boundaries absent
C2_Witness ==
    /\ ui.loaded /\ ui.n_clicks > 0
    /\ crime_df # None /\ Len(crime_df.rows) > 0 /\ geojson_data = None
    /\ ui.heatmap_figure.annotations[1].text = "Error: No data available"

-----------------------------------------------------------------------------
(* C3 *)

\* C3 as stated: once a category's breakdown is shown, a change of the borough
\* dropdown clears the major-crime selection and hides the major-crime dropdown.
C3_BoroughChangeHidesDropdown ==
    [][(BoroughStep /\ Displayed /\ HasBreakdown)
          => (ui'.major_value = NoneStr /\ ui'.major_style = DisplayNone)]_vars

\* C3 amended: a change of the borough dropdown runs no callback and changes no
\* other property: the major-crime dropdown stays as it was (visible, with the
\* options of the borough last displayed, its value already none); it is the next
\* run of the callback that shows the detail section which sets the options to the
\* major crime types of the new borough and the value to none.
C3_BoroughChangeKeepsDropdown ==
    [][/\ BoroughStep =>
            /\ ui' = [ui EXCEPT !.borough_value = ui'.borough_value]
            /\ last_call' = last_call
            /\ Displayed =>
                  /\ ui'.major_style = DisplayBlock
                  /\ ui'.major_value = NoneStr
                  /\ OptionValues(ui'.major_options) =
                        {crime_df.rows[i].MajorText : i \in OfBorough(last_call.selected_borough)}
       /\ (last_call' # last_call /\ ui'.major_style = DisplayBlock) =>
            /\ OptionValues(ui'.major_options) =
                  {crime_df.rows[i].MajorText : i \in OfBorough(ui'.borough_value)}
            /\ ui'.major_value = NoneStr
      ]_vars

\* a category's breakdown is shown for Camden and the borough dropdown now holds
\* Barnet, with the dropdown still offering Camden's two crime types
C3_Witness ==
    /\ Displayed /\ HasBreakdown
    /\ last_call.selected_borough = "Camden" /\ ui.borough_value = "Barnet"
    /\ ui.major_style = DisplayBlock
    /\ Len(ui.major_options) = 2

-----------------------------------------------------------------------------
(* C5 *)

\* C5 as stated: when a category is picked with a borough selected, the
\* major-crime selection holds the picked category once the callback is done.
C5_PickKeepsSelection ==
    [][(PickStep /\ Truthy(ui.borough_value))
          => ui'.major_value = last_call'.selected_major_crime]_vars

\* the records of the selected borough and picked category, per MinorText
BreakdownRecords(b, c, minor) ==
    Records(LAMBDA r : r.BoroughName = b /\ r.MajorText = c /\ r.MinorText = minor)

\* C5 amended: when a category is picked with a borough selected, the breakdown
\* chart is built from exactly the records of that borough and that category, one
\* series per MinorText with one point (Month, CrimeCount) per record in table
\* order, and the detail section is shown; the major-crime selection is none once
\* the callback is done, because the callback returns None for it.
C5_PickBuildsBreakdown ==
    [][(PickStep /\ Truthy(ui.borough_value)) =>
          LET b == ui.borough_value
              c == last_call'.selected_major_crime
              traces == ui'.breakdown_figure.traces
              minors == {crime_df.rows[i].MinorText :
                            i \in Records(LAMBDA r : r.BoroughName = b /\ r.MajorText = c)}
          IN  /\ ui'.major_value = NoneStr
              /\ ui'.container_style = DisplayBlock
              /\ ui'.breakdown_figure.title = <<"Crime Trend Over Time for", c, "in", b>>
              /\ DOMAIN traces = minors
              /\ \A k \in minors :
                    LET idx == BreakdownRecords(b, c, k)
                    IN  /\ Len(traces[k]) = Cardinality(idx)
                        /\ \A i \in idx :
                              traces[k][Cardinality({j \in idx : j <= i})] =
                                 [x |-> crime_df.rows[i].Month,
                                  y |-> crime_df.rows[i].CrimeCount]
      ]_vars

\* Burglary was picked for Camden on a table that also holds Barnet's Burglary:
\* the breakdown has the two series of Camden's Burglary and the selection is none
C5_Witness ==
    /\ Displayed /\ ui.n_clicks = last_call.n_clicks
    /\ last_call.selected_borough = "Camden"
    /\ last_call.selected_major_crime = "Burglary"
    /\ OfBorough("Barnet") # {}
    /\ DOMAIN ui.breakdown_figure.traces = {"Residential", "Business"}
    /\ ui.major_value = NoneStr

-----------------------------------------------------------------------------
(* C4 *)

FileFailures == {"missing", "empty", "unparsable"}

\* C4: neither loader raises on a file-level failure (a missing, an empty or an
\* unparsable file): each returns None, and the start-up never ends the process.
C4_LoadersReturnNone ==
    /\ pc # "crashed"
    /\ crimeFile \in FileFailures => (crime_df = None /\ pc # "load_crime_data")
    /\ geoFile \in FileFailures => (geojson_data = None /\ pc # "load_geojson")

-----------------------------------------------------------------------------
(* C6 *)

\* the cells of the month columns of a wide table, by (row, column)
CellPairs(df) == (1..Len(df.rows)) \X (1..Len(df.months))

\* C6: once the table read from the file has been melted, the long table has
\* exactly k*m records for the k rows and m month columns of the wide one: the
\* record of row i and month column j (at place (j-1)*k + i) carries the row's
\* BoroughName, MajorText and MinorText, the column's name as Month and the cell
\* as CrimeCount; the CrimeCounts add up to the sum of all the month cells.
C6_MeltShape ==
    (pc \in {"layout", "serving"} /\ wide # None) =>
        LET k == Len(wide.rows)
            m == Len(wide.months)
            long == crime_df.rows
        IN  /\ Len(long) = k * m
            /\ \A p \in CellPairs(wide) :
                  LET i == p[1]
                      j == p[2]
                  IN  long[(j - 1) * k + i] =
                         [BoroughName |-> wide.rows[i].BoroughName,
                          MajorText   |-> wide.rows[i].MajorText,
                          MinorText   |-> wide.rows[i].MinorText,
                          Month       |-> wide.months[j],
                          CrimeCount  |-> wide.rows[i].cells[j]]
            /\ SetSum(CountAt, 1..Len(long)) =
                  SetSum([p \in CellPairs(wide) |-> wide.rows[p[1]].cells[p[2]]],
                         CellPairs(wide))

\* a table of two rows and two month columns, with cells that differ, was melted
C6_Witness ==
    /\ pc = "serving" /\ wide # None
    /\ Len(wide.rows) = 2 /\ Len(wide.months) = 2
    /\ wide.rows[1].cells[1] # wide.rows[1].cells[2]
    /\ wide.rows[1].cells # wide.rows[2].cells
    /\ Len(crime_df.rows) = 4

-----------------------------------------------------------------------------
(* C7 *)

\* C7: while the detail section shows the charts of borough B, the trend chart
\* has one value per Month of B's records, the sum of their CrimeCount, and the
\* pie chart one slice per MajorText of B's records, the sum of their CrimeCount;
\* the trend values and the pie slices both add up to the total of B's records,
\* so no record of another borough contributes.
C7_TrendAndPieSums ==
    Displayed =>
        LET B == last_call.selected_borough
            ofB == OfBorough(B)
            months == {crime_df.rows[i].Month : i \in ofB}
            majors == {crime_df.rows[i].MajorText : i \in ofB}
            trend == ui.trend_figure.values
            pie == ui.pie_figure.values
        IN  /\ ofB # {}
            /\ DOMAIN trend = months
            /\ \A mo \in months :
                  trend[mo] = SetSum(CountAt, {i \in ofB : crime_df.rows[i].Month = mo})
            /\ DOMAIN pie = majors
            /\ \A mc \in majors :
                  pie[mc] = SetSum(CountAt, {i \in ofB : crime_df.rows[i].MajorText = mc})
            /\ SetSum(trend, months) = SetSum(CountAt, ofB)
            /\ SetSum(pie, majors) = SetSum(CountAt, ofB)

\* Camden's charts are shown after a navigate click, on a table that holds both
\* crime types of Camden and records of Barnet
C7_Witness ==
    /\ Displayed /\ last_call.selected_borough = "Camden"
    /\ last_call.selected_major_crime = NoneStr
    /\ DOMAIN ui.pie_figure.values = {"Burglary", "Theft"}
    /\ OfBorough("Barnet") # {}
    /\ Cardinality(OfBorough("Camden")) = 6

-----------------------------------------------------------------------------
(* C8 *)

\* C8 as stated: a category pick leaves the displayed trend and pie charts as
\* they were, in every state.
C8_PickKeepsTrendAndPie ==
    [][PickStep => (ui'.trend_figure = ui.trend_figure /\ ui'.pie_figure = ui.pie_figure)]_vars

\* C8 amended: a category pick leaves the displayed trend and pie charts as they
\* were when the borough dropdown still holds the borough they were built for
\* (only the breakdown chart is then rebuilt, for the picked category); when the
\* dropdown was changed to another borough since, the pick rebuilds the trend and
\* pie charts for that borough; when it was cleared, the pick changes no chart and
\* hides the detail section.
C8_PickRebuildsForCurrentBorough ==
    [][PickStep =>
          LET b == ui.borough_value
              shown == last_call.selected_borough
          IN  /\ b = shown =>
                    /\ ui'.trend_figure = ui.trend_figure
                    /\ ui'.pie_figure = ui.pie_figure
                    /\ ui'.breakdown_figure.title =
                          <<"Crime Trend Over Time for", last_call'.selected_major_crime,
                            "in", b>>
              /\ (Truthy(b) /\ b # shown) =>
                    /\ ui'.trend_figure.title = <<"Overall Crime Trend in", b, "Over Time">>
                    /\ ui'.pie_figure.title = <<"Count of Each Major Crime Type in", b>>
                    /\ ui'.trend_figure # ui.trend_figure
                    /\ ui'.pie_figure # ui.pie_figure
              /\ ~Truthy(b) =>
                    /\ ui'.trend_figure = ui.trend_figure
                    /\ ui'.pie_figure = ui.pie_figure
                    /\ ui'.breakdown_figure = ui.breakdown_figure
                    /\ ui'.container_style = DisplayNone
      ]_vars

\* Theft, a crime type of Camden only, was picked after the borough dropdown had
\* been changed to Barnet: the charts shown are now Barnet's
C8_Witness ==
    /\ Displayed /\ last_call.n_clicks = 1
    /\ last_call.selected_major_crime = "Theft"
    /\ last_call.selected_borough = "Barnet"
    /\ ui.trend_figure.title = <<"Overall Crime Trend in", "Barnet", "Over Time">>

-----------------------------------------------------------------------------
(* C9 *)

-----------------------------------------------------------------------------
(* C10 *)

\* C10: after every run of update_graphs_and_dropdown the three visibility
\* flags it returned (graph container, pie chart, major-crime dropdown) are
\* equal; they are 'block' exactly when n_clicks > 0, the dataset is present and
\* the borough is non-empty; when they are 'none' the returned options are empty.
C10_VisibilityFlags ==
    last_call.ran =>
        LET r == LastReturn
            show == /\ last_call.n_clicks > 0
                    /\ crime_df # None
                    /\ Truthy(last_call.selected_borough)
        IN  /\ r.container_style = r.pie_style
            /\ r.pie_style = r.major_style
            /\ r.container_style \in {Out(DisplayNone), Out(DisplayBlock)}
            /\ r.container_style = Out(DisplayBlock) <=> show
            /\ r.container_style = Out(DisplayNone) => r.major_options = Out(<<>>)
            /\ ui.container_style = r.container_style.value
            /\ ui.pie_style = r.pie_style.value
            /\ ui.major_style = r.major_style.value
            /\ ui.major_options = r.major_options.value

\* the callback ran with clicks and a borough but no dataset (the "No data
\* available" option, whose value is the empty string, cannot show the section)
C10_Witness ==
    /\ last_call.ran /\ last_call.n_clicks > 0
    /\ crime_df = None /\ last_call.selected_borough = ""
    /\ ui.pie_style = DisplayNone /\ ui.major_options = <<>>

=============================================================================
